---- MODULE Spec2Model ----
(***************************************************************************)
(* Room server of forgesteel: the durable store (game_data, hero_claims,   *)
(* room_state, client_names), the REST handlers and the WebSocket          *)
(* connection registry with its broadcast fanout.                          *)
(*                                                                         *)
(* Tables are sets of rows, as in SQLite.  Every handler is one action: it *)
(* runs to completion without yielding.  res is the HTTP response of the   *)
(* last handler, sent the WebSocket sends the last handler made.           *)
(***************************************************************************)
EXTENDS Integers, Sequences, FiniteSets, TLC

VARIABLES
    cfg,            \* the bounded universe of inputs of this run
    game_data,      \* table game_data: rows [key, data, version]
    hero_claims,    \* table hero_claims: rows [hero_id, client_id]
    room_state,     \* table room_state: rows [key, value]
    client_names,   \* table client_names: rows [client_id, name]
    clients,        \* Map<string, Client>: entries [id, role, name, ws]
    sockets,        \* the WebSocket objects: slot -> [clientId, readyState]
    req,            \* the last request or socket event: [op, target, was, clientId],
                    \* was: the hero's owner before a claim or release
    res,            \* response of the last handler
    sent,           \* WebSocket sends of the last handler, in order
    returned,       \* history: versions returned by the successful writes of a key
    lastWritten,    \* history: the data string of the last successful write of a key
    allUncond,      \* history: keys all of whose successful writes had no expectedVersion
    hook,           \* useRoomSync: settings, refs and state of the hook
    browser         \* the hook's WebSocket objects, pending timers, reachability

vars == <<cfg, game_data, hero_claims, room_state, client_names, clients,
          sockets, req, res, sent, returned, lastWritten, allUncond, hook, browser>>

dbVars == <<game_data, hero_claims, room_state, client_names>>
hist == <<returned, lastWritten, allUncond>>
hookVars == <<hook, browser>>

(***************************************************************************)
(* Bounds                                                                  *)
(***************************************************************************)
\* no write is issued to a document whose version has reached MaxVersion
MaxVersion == 2
\* WebSocket objects alive at the same time
MaxSockets == 2

Null == "<null>"        \* null / undefined where a string is expected

Keys == {"k1", "k2"}
Heroes == {"h1", "h2"}
\* client identifiers: any of them may be sent as x-client-id; Users are the
\* ids for which a valid session token exists
Ids == {"a", "b", "u"}
Users == {"b", "u"}
BadToken == "<bad>"     \* a bearer token that verifySessionToken rejects

(***************************************************************************)
(* JSON: values, JSON.stringify and JSON.parse over texts (sequences of    *)
(* characters).                                                            *)
(***************************************************************************)
Digits == {"1", "2", "7"}
JObj(d) == [t |-> "object", g |-> d]        \* the object {g: d}
JStr(s) == [t |-> "string", s |-> s]
JNum(d) == [t |-> "number", n |-> d]
JNull == [t |-> "null"]

\* JSON.stringify(value)
JSONstringify(v) ==
    CASE v.t = "object" -> <<"{", "g", ":", v.g, "}">>
      [] v.t = "string" -> <<"\"">> \o v.s \o <<"\"">>
      [] v.t = "number" -> <<v.n>>
      [] OTHER -> <<"n", "u", "l", "l">>

\* JSON.parse(text): [ok |-> TRUE, value] or [ok |-> FALSE] when it throws
JSONparse(text) ==
    IF Len(text) = 1 /\ text[1] \in Digits
      THEN [ok |-> TRUE, value |-> JNum(text[1])]
    ELSE IF /\ Len(text) = 5
            /\ text[1] = "{" /\ text[2] = "g" /\ text[3] = ":"
            /\ text[4] \in Digits /\ text[5] = "}"
      THEN [ok |-> TRUE, value |-> JObj(text[4])]
    ELSE IF /\ Len(text) >= 2
            /\ text[1] = "\"" /\ text[Len(text)] = "\""
            /\ \A i \in 2..(Len(text) - 1) : text[i] # "\""
      THEN [ok |-> TRUE, value |-> JStr(SubSeq(text, 2, Len(text) - 1))]
    ELSE IF text = <<"n", "u", "l", "l">>
      THEN [ok |-> TRUE, value |-> JNull]
    ELSE [ok |-> FALSE]

\* the request bodies' data: an object, a string that is no JSON text, and a
\* string that is one
AllPayloads == {JObj("1"), JStr(<<"h">>), JStr(<<"7">>)}

\* typeof data === 'string' ? data : JSON.stringify(data)
dataString(data) == IF data.t = "string" THEN data.s ELSE JSONstringify(data)

(***************************************************************************)
(* db: game_data                                                           *)
(***************************************************************************)
\* getDataStmt: the rows of a key ({} stands for null)
getData(gd, key) == {r \in gd : r.key = key}

\* mutant of upsertDataStmt: the conflict branch keeps the version
upsertDataStmt_keepsVersion(gd, key, data) ==
    IF {r \in gd : r.key = key} = {}
      THEN [rows |-> gd \cup {[key |-> key, data |-> data, version |-> 1]},
            returning |-> {1}]
      ELSE LET old == CHOOSE r \in gd : r.key = key
           IN  [rows |-> (gd \ {old}) \cup
                         {[key |-> key, data |-> data, version |-> old.version]},
                returning |-> {old.version}]

\* upsertDataStmt: INSERT ... VALUES (?, ?, 1) ON CONFLICT(key) DO UPDATE SET
\* data = excluded.data, version = version + 1 RETURNING version
upsertDataStmt(gd, key, data) ==
    IF getData(gd, key) = {}
      THEN [rows |-> gd \cup {[key |-> key, data |-> data, version |-> 1]},
            returning |-> {1}]
      ELSE LET old == CHOOSE r \in gd : r.key = key
           IN  [rows |-> (gd \ {old}) \cup
                         {[key |-> key, data |-> data, version |-> old.version + 1]},
                returning |-> {old.version + 1}]

\* mutant of upsertDataWithVersionStmt: WHERE key = ? (the version is not compared)
upsertDataWithVersionStmt_anyVersion(gd, data, key, version) ==
    LET hit == {r \in gd : r.key = key}
    IN  [rows |-> (gd \ hit) \cup
                  {[key |-> key, data |-> data, version |-> r.version + 1] : r \in hit},
         returning |-> {r.version + 1 : r \in hit}]

\* mutant of upsertDataWithVersionStmt: WHERE version = ? (the key is not compared)
upsertDataWithVersionStmt_anyKey(gd, data, key, version) ==
    LET hit == {r \in gd : r.version = version}
    IN  [rows |-> (gd \ hit) \cup
                  {[key |-> r.key, data |-> data, version |-> r.version + 1] : r \in hit},
         returning |-> {r.version + 1 : r \in hit}]

\* mutant of upsertDataWithVersionStmt: WHERE key = ? AND version >= ?
upsertDataWithVersionStmt_atLeast(gd, data, key, version) ==
    LET hit == {r \in gd : r.key = key /\ r.version >= version}
    IN  [rows |-> (gd \ hit) \cup
                  {[key |-> key, data |-> data, version |-> r.version + 1] : r \in hit},
         returning |-> {r.version + 1 : r \in hit}]

\* upsertDataWithVersionStmt: UPDATE game_data SET data = ?, version = version + 1
\* WHERE key = ? AND version = ? RETURNING version
upsertDataWithVersionStmt(gd, data, key, version) ==
    LET hit == {r \in gd : r.key = key /\ r.version = version}
    IN  [rows |-> (gd \ hit) \cup
                  {[key |-> key, data |-> data, version |-> r.version + 1] : r \in hit},
         returning |-> {r.version + 1 : r \in hit}]

\* setData(key, data, expectedVersion?): expectedVersion is {} when undefined,
\* {v} otherwise; result is {} for null, {version} otherwise
setData(gd, key, data, expectedVersion) ==
    IF expectedVersion # {}
      THEN upsertDataWithVersionStmt(gd, data, key, CHOOSE v \in expectedVersion : TRUE)
      ELSE upsertDataStmt(gd, key, data)

(***************************************************************************)
(* db: hero_claims                                                         *)
(***************************************************************************)
\* getClaim(heroId): row?.client_id ?? null
getClaim(hc, heroId) ==
    IF \E r \in hc : r.hero_id = heroId
      THEN (CHOOSE r \in hc : r.hero_id = heroId).client_id
      ELSE Null

\* getAllClaims(): rows as {heroId, clientId}
getAllClaims(hc) == {[heroId |-> r.hero_id, clientId |-> r.client_id] : r \in hc}

\* setClaim(heroId, clientId): INSERT ... ON CONFLICT(hero_id) DO UPDATE SET client_id
setClaim(hc, heroId, clientId) ==
    {r \in hc : r.hero_id # heroId} \cup {[hero_id |-> heroId, client_id |-> clientId]}

\* mutant of deleteClaim: the owner is not compared
deleteClaim_ignoresOwner(hc, heroId, clientId) ==
    LET gone == {r \in hc : r.hero_id = heroId}
    IN  [rows |-> hc \ gone, result |-> Cardinality(gone) > 0]

\* mutant of deleteClaim: the delete by owner is used also without a clientId
deleteClaim_alwaysByOwner(hc, heroId, clientId) ==
    LET gone == {r \in hc : r.hero_id = heroId /\ r.client_id = clientId}
    IN  [rows |-> hc \ gone, result |-> Cardinality(gone) > 0]

\* deleteClaim(heroId, clientId?): the delete by owner when clientId is given,
\* the forced delete otherwise; result is changes > 0
deleteClaim(hc, heroId, clientId) ==
    LET gone == IF clientId # Null
                  THEN {r \in hc : r.hero_id = heroId /\ r.client_id = clientId}
                  ELSE {r \in hc : r.hero_id = heroId}
    IN  [rows |-> hc \ gone, result |-> Cardinality(gone) > 0]

(***************************************************************************)
(* db: room_state                                                          *)
(***************************************************************************)
\* getRoomState(key): row?.value ?? null
getRoomState(rs, key) ==
    IF \E r \in rs : r.key = key
      THEN (CHOOSE r \in rs : r.key = key).value
      ELSE Null

\* setRoomState(key, value): INSERT ... ON CONFLICT(key) DO UPDATE SET value
setRoomState(rs, key, value) ==
    {r \in rs : r.key # key} \cup {[key |-> key, value |-> value]}

getDmClientId(rs) == getRoomState(rs, "dm_client_id")

\* mutant of isDmDiscordUser: the flag row is never read as 'true'
isDmDiscordUser_never(rs) == FALSE

\* row?.value === 'true'
isDmDiscordUser(rs) == getRoomState(rs, "dm_is_discord_user") = "true"

\* mutant of setDmClientId: only the flag row is written
setDmClientId_flagOnly(rs, clientId, isDiscordUser) ==
    {r \in rs : r.key # "dm_is_discord_user"} \cup
        {[key |-> "dm_is_discord_user",
          value |-> IF isDiscordUser THEN "true" ELSE "false"]}

\* setDmClientId(clientId, isDiscordUser = false): both rows are written
setDmClientId(rs, clientId, isDiscordUser) ==
    setRoomState(setRoomState(rs, "dm_client_id", clientId),
                 "dm_is_discord_user", IF isDiscordUser THEN "true" ELSE "false")

\* DELETE FROM room_state WHERE key IN ('dm_client_id', 'dm_is_discord_user')
clearDmClientId(rs) ==
    {r \in rs : r.key \notin {"dm_client_id", "dm_is_discord_user"}}

(***************************************************************************)
(* db: client_names                                                        *)
(***************************************************************************)
getClientName(cn, clientId) ==
    IF \E r \in cn : r.client_id = clientId
      THEN (CHOOSE r \in cn : r.client_id = clientId).name
      ELSE Null

\* mutant of getAllClientNames: only the names of registered clients
getAllClientNames_connected(cn) ==
    {[clientId |-> r.client_id, name |-> r.name] :
        r \in {q \in cn : \E c \in clients : c.id = q.client_id}}

getAllClientNames(cn) == {[clientId |-> r.client_id, name |-> r.name] : r \in cn}

setClientName(cn, clientId, name) ==
    {r \in cn : r.client_id # clientId} \cup {[client_id |-> clientId, name |-> name]}

\* mutant of resetRoom: client_names is not deleted
resetRoom_keepsNames(db) ==
    [game_data |-> db.game_data, hero_claims |-> {}, room_state |-> {},
     client_names |-> db.client_names]

\* mutant of resetRoom: game_data is deleted as well
resetRoom_dropsData(db) ==
    [game_data |-> {}, hero_claims |-> {}, room_state |-> {}, client_names |-> {}]

\* resetRoom(): DELETE FROM hero_claims; DELETE FROM room_state; DELETE FROM
\* client_names.  game_data is not touched.
resetRoom(db) ==
    [game_data |-> db.game_data, hero_claims |-> {}, room_state |-> {},
     client_names |-> {}]

(***************************************************************************)
(* Session tokens                                                          *)
(***************************************************************************)
\* displayName carried by the token of a user
DisplayName(u) == "D"

\* verifySessionToken(token): the user payload, or a throw (ok = FALSE).  A
\* request's authorization is Null (no Bearer header), BadToken, or the id of
\* the user whose valid token it carries.
verifySessionToken(token) ==
    IF token \in Users
      THEN [ok |-> TRUE, id |-> token, displayName |-> DisplayName(token)]
      ELSE [ok |-> FALSE]

(***************************************************************************)
(* Connection registry and broadcast                                       *)
(***************************************************************************)
Slots == 1..MaxSockets
FreeSocket == [clientId |-> Null, readyState |-> "FREE"]

\* clients.get(clientId): the entries under the id ({} for undefined)
clientsGet(cl, clientId) == {c \in cl : c.id = clientId}

\* clients.set(clientId, client)
clientsSet(cl, client) == {c \in cl : c.id # client.id} \cup {client}

\* clients.delete(clientId)
clientsDelete(cl, clientId) == {c \in cl : c.id # clientId}

\* mutant of broadcast: the message is sent to nobody
broadcast_toNobody(cl, socks, message, excludeClientId) ==
    [msg |-> message, to |-> {}]

\* mutant of broadcast: the loop stops after its first send
broadcast_firstOnly(cl, socks, message, excludeClientId) ==
    LET to == {c.ws : c \in {d \in cl : /\ d.id # excludeClientId
                                        /\ socks[d.ws].readyState = "OPEN"}}
    IN  [msg |-> message, to |-> {w \in to : \A x \in to : w <= x}]

\* broadcast(message, excludeClientId?): one send to every registered client
\* other than excludeClientId whose socket is OPEN
broadcast(cl, socks, message, excludeClientId) ==
    [msg |-> message,
     to  |-> {c.ws : c \in {d \in cl : /\ d.id # excludeClientId
                                       /\ socks[d.ws].readyState = "OPEN"}}]

\* Array.from(clients.values()).map(c => ({id, role, name, connectedAt}))
clientList(cl) == {[id |-> c.id, role |-> c.role, name |-> c.name] : c \in cl}

\* broadcastClientList()
broadcastClientList(cl, socks, cn) ==
    broadcast(cl, socks,
              [type |-> "clients", list |-> clientList(cl),
               clientNames |-> getAllClientNames(cn)],
              Null)

NoResponse == [status |-> 0]

(***************************************************************************)
(* Requests                                                                *)
(***************************************************************************)
\* x-client-id header: absent (or empty), or an id
XClientIds == cfg.ids \cup {Null}
\* Authorization header: absent, or Bearer with a token
Authorizations == cfg.tokens \cup {Null}
\* x-client-name header
XClientNames == cfg.names \cup {Null}
\* expectedVersion of a body: {} when undefined
ExpectedVersions == {{}} \cup {{v} : v \in 0..MaxVersion}

\* clientId = req.headers['x-client-id'] of the claim, release, reset and
\* write handlers: the Authorization header of the request is not read
actingIdentity(authorization, xClientId) == xClientId

\* uuidv4(): an id that occurs nowhere in the server's state
FreshIds ==
    cfg.ids \ ( {r.client_id : r \in hero_claims} \cup {r.value : r \in room_state}
                \cup {r.client_id : r \in client_names} \cup {c.id : c \in clients}
                \cup {sockets[s].clientId : s \in Slots} )

(***************************************************************************)
(* GET /data/:key                                                          *)
(***************************************************************************)
GetData(key) ==
    LET result == getData(game_data, key)
        row == CHOOSE r \in result : TRUE
        parsed == JSONparse(row.data)
    IN  /\ req' = [op |-> "GET /data", target |-> key, was |-> Null, clientId |-> Null]
        /\ res' = IF result = {}
                    THEN [status |-> 200, body |-> [data |-> JNull, version |-> 0]]
                  ELSE IF parsed.ok
                    THEN [status |-> 200,
                          body |-> [data |-> parsed.value, version |-> row.version]]
                    ELSE [status |-> 200,
                          body |-> [data |-> JStr(row.data), version |-> row.version]]
        /\ sent' = <<>>
        /\ UNCHANGED <<cfg, dbVars, clients, sockets, hist>>

(***************************************************************************)
(* PUT /data/:key                                                          *)
(***************************************************************************)
\* the 409 of a version conflict; JSON.parse(current.data) is not guarded, a
\* throw ends in the framework's 500
conflictResponse(current) ==
    IF current = {}
      THEN [status |-> 409, body |-> [error |-> "Version conflict", data |-> JNull]]
      ELSE LET row == CHOOSE r \in current : TRUE
               parsed == JSONparse(row.data)
           IN  IF parsed.ok
                 THEN [status |-> 409,
                       body |-> [error |-> "Version conflict",
                                 currentVersion |-> row.version,
                                 data |-> parsed.value]]
                 ELSE [status |-> 500, body |-> [error |-> "SyntaxError"]]

PutData(key, data, expectedVersion, clientId) ==
    LET result == setData(game_data, key, dataString(data), expectedVersion)
        version == CHOOSE v \in result.returning : TRUE
    IN  /\ req' = [op |-> "PUT /data", target |-> key, was |-> Null, clientId |-> clientId]
        /\ \* bound: no successful write beyond MaxVersion
           /\ \A v \in result.returning : v <= MaxVersion
           /\ game_data' = result.rows
           /\ IF result.returning = {}
                THEN /\ res' = conflictResponse(getData(result.rows, key))
                     /\ sent' = <<>>
                     /\ UNCHANGED hist
                ELSE /\ sent' = <<broadcast(clients, sockets,
                                            [type |-> "data_changed", key |-> key,
                                             version |-> version],
                                            clientId)>>
                     /\ res' = [status |-> 200, body |-> [version |-> version]]
                     /\ returned' = [returned EXCEPT ![key] = Append(@, version)]
                     /\ lastWritten' = [lastWritten EXCEPT ![key] = {dataString(data)}]
                     /\ allUncond' = [allUncond EXCEPT ![key] = @ /\ expectedVersion = {}]
           /\ UNCHANGED <<cfg, hero_claims, room_state, client_names, clients, sockets>>

(***************************************************************************)
(* GET /connect                                                            *)
(***************************************************************************)
\* identity of /connect: the token's user when a Bearer token verifies, the
\* x-client-id header (or a fresh uuid) otherwise
connectIdentity(authorization, xClientId, xClientName, uuid) ==
    LET user == verifySessionToken(authorization)
    IN  IF authorization # Null /\ user.ok
          THEN [clientId |-> user.id, clientName |-> user.displayName,
                isDiscordUser |-> TRUE]
          ELSE [clientId |-> IF xClientId # Null THEN xClientId ELSE uuid,
                clientName |-> xClientName, isDiscordUser |-> FALSE]

\* mutant of connectRole: the comparison with the authority is inverted
connectRole_inverted(dmClientId, clientId) ==
    IF dmClientId = Null THEN "dm"
    ELSE IF dmClientId # clientId THEN "dm"
    ELSE "player"

\* the role /connect answers: dm for the first client and for the authority
connectRole(dmClientId, clientId) ==
    IF dmClientId = Null THEN "dm"
    ELSE IF dmClientId = clientId THEN "dm"
    ELSE "player"

Connect(authorization, xClientId, xClientName, uuid) ==
    LET who == connectIdentity(authorization, xClientId, xClientName, uuid)
        dmClientId == getDmClientId(room_state)
        role == connectRole(dmClientId, who.clientId)
        names == IF who.clientName # Null
                   THEN setClientName(client_names, who.clientId, who.clientName)
                   ELSE client_names
    IN  /\ req' = [op |-> "GET /connect", target |-> Null, was |-> Null,
                   clientId |-> who.clientId]
        /\ room_state' = IF dmClientId = Null
                           THEN setDmClientId(room_state, who.clientId, who.isDiscordUser)
                           ELSE room_state
        /\ client_names' = names
        /\ res' = [status |-> 200,
                   body |-> [clientId |-> who.clientId, role |-> role,
                             name |-> getClientName(names, who.clientId)]]
        /\ sent' = <<>>
        /\ UNCHANGED <<cfg, game_data, hero_claims, clients, sockets, hist>>

(***************************************************************************)
(* POST /heroes/:heroId/claim                                              *)
(***************************************************************************)
\* mutant of claimRejected: the owner comparison is inverted
claimRejected_ownerOnly(existingClaim, clientId, isDm) ==
    existingClaim # Null /\ existingClaim = clientId /\ ~isDm

\* mutant of claimRejected: the director is not exempted
claimRejected_noDirector(existingClaim, clientId, isDm) ==
    existingClaim # Null /\ existingClaim # clientId

\* mutant of claimRejected: the owner is turned away too
claimRejected_anyExisting(existingClaim, clientId, isDm) ==
    existingClaim # Null /\ ~isDm

\* mutant of claimRejected: an existing claim turns nobody away
claimRejected_never(existingClaim, clientId, isDm) == FALSE

\* the guard of the 409: existingClaim && existingClaim !== clientId && !isDm
claimRejected(existingClaim, clientId, isDm) ==
    existingClaim # Null /\ existingClaim # clientId /\ ~isDm

\* mutant of missingClientId: the header is never found missing
missingClientId_never(clientId) == FALSE

\* the guard of the 400: !clientId
missingClientId(clientId) == clientId = Null

ClaimHero(heroId, clientId) ==
    LET existingClaim == getClaim(hero_claims, heroId)
        dmClientId == getDmClientId(room_state)
        isDm == clientId = dmClientId
    IN  /\ req' = [op |-> "POST /heroes/claim", target |-> heroId,
                   was |-> existingClaim, clientId |-> clientId]
        /\ IF missingClientId(clientId)
             THEN /\ res' = [status |-> 400,
                             body |-> [error |-> "Missing x-client-id header"]]
                  /\ sent' = <<>>
                  /\ UNCHANGED <<cfg, dbVars, clients, sockets, hist>>
           ELSE IF claimRejected(existingClaim, clientId, isDm)
             THEN /\ res' = [status |-> 409,
                             body |-> [error |-> "Hero already claimed",
                                       claimedBy |-> existingClaim]]
                  /\ sent' = <<>>
                  /\ UNCHANGED <<cfg, dbVars, clients, sockets, hist>>
             ELSE /\ hero_claims' = setClaim(hero_claims, heroId, clientId)
                  /\ sent' = <<broadcast(clients, sockets,
                                         [type |-> "claim_changed", heroId |-> heroId,
                                          clientId |-> clientId],
                                         Null)>>
                  /\ res' = [status |-> 200, body |-> [success |-> TRUE]]
                  /\ UNCHANGED <<cfg, game_data, room_state, client_names, clients,
                                 sockets, hist>>

(***************************************************************************)
(* DELETE /heroes/:heroId/claim                                            *)
(***************************************************************************)
ReleaseHero(heroId, clientId) ==
    LET dmClientId == getDmClientId(room_state)
        isDm == clientId = dmClientId
        \* DM can release any claim, players can only release their own
        deleted == IF isDm
                     THEN deleteClaim(hero_claims, heroId, Null)
                     ELSE deleteClaim(hero_claims, heroId, clientId)
    IN  /\ req' = [op |-> "DELETE /heroes/claim", target |-> heroId,
                   was |-> getClaim(hero_claims, heroId), clientId |-> clientId]
        /\ IF missingClientId(clientId)
             THEN /\ res' = [status |-> 400,
                             body |-> [error |-> "Missing x-client-id header"]]
                  /\ sent' = <<>>
                  /\ UNCHANGED <<cfg, dbVars, clients, sockets, hist>>
             ELSE /\ hero_claims' = deleted.rows
                  /\ sent' = IF deleted.result
                               THEN <<broadcast(clients, sockets,
                                                [type |-> "claim_changed",
                                                 heroId |-> heroId, clientId |-> Null],
                                                Null)>>
                               ELSE <<>>
                  /\ res' = [status |-> 200, body |-> [success |-> deleted.result]]
                  /\ UNCHANGED <<cfg, game_data, room_state, client_names, clients,
                                 sockets, hist>>

(***************************************************************************)
(* POST /reset                                                             *)
(***************************************************************************)
\* mutant of resetRejected: on a vacant room nobody is turned away
resetRejected_vacantOpen(clientId, dmClientId) ==
    dmClientId # Null /\ clientId # dmClientId

\* clientId !== dmClientId: a missing header is undefined, which no stored
\* value and no null equals
resetRejected(clientId, dmClientId) == clientId = Null \/ clientId # dmClientId

ResetRoom(clientId) ==
    LET dmClientId == getDmClientId(room_state)
        after == resetRoom([game_data |-> game_data, hero_claims |-> hero_claims,
                            room_state |-> room_state, client_names |-> client_names])
    IN  /\ req' = [op |-> "POST /reset", target |-> Null, was |-> Null, clientId |-> clientId]
        /\ IF resetRejected(clientId, dmClientId)
             THEN /\ res' = [status |-> 403,
                             body |-> [error |-> "Only DM can reset the room"]]
                  /\ sent' = <<>>
                  /\ UNCHANGED <<cfg, dbVars, clients, sockets, hist>>
             ELSE /\ game_data' = after.game_data
                  /\ hero_claims' = after.hero_claims
                  /\ room_state' = after.room_state
                  /\ client_names' = after.client_names
                  /\ sent' = <<broadcast(clients, sockets, [type |-> "room_reset"], Null)>>
                  /\ res' = [status |-> 200, body |-> [success |-> TRUE]]
                  /\ UNCHANGED <<cfg, clients, sockets, hist>>

(***************************************************************************)
(* Director endpoints                                                      *)
(***************************************************************************)
\* requireAuth: the 401 of a request that does not pass, {} when it passes
requireAuth(authorization) ==
    IF authorization = Null
      THEN {[status |-> 401, body |-> [error |-> "Missing authorization header"]]}
    ELSE IF ~verifySessionToken(authorization).ok
      THEN {[status |-> 401, body |-> [error |-> "Invalid or expired token"]]}
    ELSE {}

\* GET /director/status
DirectorStatus(authorization) ==
    LET dmClientId == getDmClientId(room_state)
        dmIsDiscordUser == isDmDiscordUser(room_state)
        dmName == IF dmClientId # Null THEN getClientName(client_names, dmClientId)
                  ELSE Null
        user == verifySessionToken(authorization)
        canClaim == /\ authorization # Null
                    /\ user.ok
                    /\ (dmClientId = Null \/ ~dmIsDiscordUser)
                    /\ user.id # dmClientId
    IN  /\ req' = [op |-> "GET /director/status", target |-> Null, was |-> Null,
                   clientId |-> authorization]
        /\ res' = [status |-> 200,
                   body |-> [dmClientId |-> dmClientId, dmName |-> dmName,
                             dmIsDiscordUser |-> dmIsDiscordUser,
                             canClaim |-> canClaim]]
        /\ sent' = <<>>
        /\ UNCHANGED <<cfg, dbVars, clients, sockets, hist>>

\* POST /director/claim
DirectorClaim(authorization) ==
    LET denied == requireAuth(authorization)
        user == verifySessionToken(authorization)
        clientId == user.id
        currentDmId == getDmClientId(room_state)
        dmIsDiscordUser == isDmDiscordUser(room_state)
        cl == {IF c.id = clientId THEN [c EXCEPT !.role = "dm"] ELSE c : c \in clients}
    IN  /\ req' = [op |-> "POST /director/claim", target |-> Null, was |-> Null,
                   clientId |-> authorization]
        /\ IF denied # {}
             THEN /\ res' = CHOOSE r \in denied : TRUE
                  /\ sent' = <<>>
                  /\ UNCHANGED <<cfg, dbVars, clients, sockets, hist>>
           ELSE IF currentDmId # Null /\ dmIsDiscordUser
             THEN /\ res' = [status |-> 403,
                             body |-> [error |-> "Director role is held by a Discord user"]]
                  /\ sent' = <<>>
                  /\ UNCHANGED <<cfg, dbVars, clients, sockets, hist>>
             ELSE /\ room_state' = setDmClientId(room_state, clientId, TRUE)
                  /\ clients' = cl
                  /\ sent' = << broadcast(cl, sockets,
                                          [type |-> "director_changed",
                                           dmClientId |-> clientId,
                                           dmName |-> user.displayName,
                                           dmIsDiscordUser |-> TRUE],
                                          Null),
                                broadcastClientList(cl, sockets, client_names) >>
                  /\ res' = [status |-> 200, body |-> [success |-> TRUE, role |-> "dm"]]
                  /\ UNCHANGED <<cfg, game_data, hero_claims, client_names, sockets, hist>>

\* currentDmId !== clientId
releaseRejected(currentDmId, clientId) == currentDmId # clientId

\* POST /director/release
DirectorRelease(authorization) ==
    LET denied == requireAuth(authorization)
        user == verifySessionToken(authorization)
        clientId == user.id
        currentDmId == getDmClientId(room_state)
        cl == {IF c.id = clientId THEN [c EXCEPT !.role = "player"] ELSE c : c \in clients}
    IN  /\ req' = [op |-> "POST /director/release", target |-> Null, was |-> Null,
                   clientId |-> authorization]
        /\ IF denied # {}
             THEN /\ res' = CHOOSE r \in denied : TRUE
                  /\ sent' = <<>>
                  /\ UNCHANGED <<cfg, dbVars, clients, sockets, hist>>
           ELSE IF releaseRejected(currentDmId, clientId)
             THEN /\ res' = [status |-> 403,
                             body |-> [error |-> "You are not the director"]]
                  /\ sent' = <<>>
                  /\ UNCHANGED <<cfg, dbVars, clients, sockets, hist>>
             ELSE /\ room_state' = clearDmClientId(room_state)
                  /\ clients' = cl
                  /\ sent' = << broadcast(cl, sockets,
                                          [type |-> "director_changed",
                                           dmClientId |-> Null, dmName |-> Null,
                                           dmIsDiscordUser |-> FALSE],
                                          Null),
                                broadcastClientList(cl, sockets, client_names) >>
                  /\ res' = [status |-> 200, body |-> [success |-> TRUE, role |-> "player"]]
                  /\ UNCHANGED <<cfg, game_data, hero_claims, client_names, sockets, hist>>

(***************************************************************************)
(* WebSocket: upgrade, connection, message, close, error                   *)
(***************************************************************************)

\* mutant of upgrade: a token that does not verify falls back to clientId
upgrade_fallsBack(token, clientId) ==
    IF token # Null /\ verifySessionToken(token).ok
      THEN {[user |-> {verifySessionToken(token)}, clientId |-> Null]}
      ELSE IF clientId = Null
             THEN {}
             ELSE {[user |-> {}, clientId |-> clientId]}

\* server.on('upgrade'): the identity the request is given ({} when the
\* socket is destroyed); token and clientId are the query parameters
upgrade(token, clientId) ==
    IF cfg.authConfigured
      THEN IF token = Null \/ ~verifySessionToken(token).ok
             THEN {}
             ELSE {[user |-> {verifySessionToken(token)}, clientId |-> Null]}
      ELSE IF clientId = Null
             THEN {}
             ELSE {[user |-> {}, clientId |-> clientId]}

\* upgrade followed by wss.on('connection') on a new WebSocket
WsConnect(token, queryClientId, ws) ==
    LET up == upgrade(token, queryClientId)
        request == CHOOSE r \in up : TRUE
        user == CHOOSE u \in request.user : TRUE
        clientId == IF request.user # {} THEN user.id ELSE request.clientId
        name == IF request.user # {} THEN user.displayName
                ELSE getClientName(client_names, clientId)
        dmClientId == getDmClientId(room_state)
        role == IF clientId = dmClientId THEN "dm" ELSE "player"
        client == [id |-> clientId, role |-> role, name |-> name, ws |-> ws]
        cl == clientsSet(clients, client)
        socks == [sockets EXCEPT ![ws] = [clientId |-> clientId, readyState |-> "OPEN"]]
    IN  /\ req' = [op |-> "ws connection", target |-> Null, was |-> Null,
                   clientId |-> IF up = {} THEN Null ELSE clientId]
        /\ cfg.sockets
        /\ sockets[ws].readyState = "FREE"
        /\ \A s \in Slots : s < ws => sockets[s].readyState # "FREE"
        /\ IF up = {}
             THEN /\ res' = [status |-> IF cfg.authConfigured THEN 401 ELSE 400]
                  /\ sent' = <<>>
                  /\ UNCHANGED <<clients, sockets>>
             ELSE /\ clients' = cl
                  /\ sockets' = socks
                  /\ res' = [status |-> 101]
                  /\ sent' = << [msg |-> [type |-> "init",
                                          claims |-> getAllClaims(hero_claims),
                                          clientNames |-> getAllClientNames(client_names),
                                          clients |-> clientList(cl),
                                          director |->
                                            [dmClientId |-> getDmClientId(room_state),
                                             dmIsDiscordUser |-> isDmDiscordUser(room_state)]],
                                 to |-> {ws}],
                                broadcastClientList(cl, socks, client_names) >>
        /\ UNCHANGED <<cfg, dbVars, hist>>

\* ws.on('message'): ping, or request_sync of a key
WsMessage(ws, type, key) ==
    LET result == getData(game_data, key)
        row == CHOOSE r \in result : TRUE
        parsed == JSONparse(row.data)
    IN  /\ req' = [op |-> "ws message", target |-> key, was |-> Null,
                   clientId |-> sockets[ws].clientId]
        /\ sockets[ws].readyState = "OPEN"
        /\ sent' = IF type = "ping"
                     THEN <<[msg |-> [type |-> "pong"], to |-> {ws}]>>
                   ELSE IF result # {} /\ parsed.ok
                     THEN <<[msg |-> [type |-> "sync", key |-> key,
                                      data |-> parsed.value, version |-> row.version],
                             to |-> {ws}]>>
                     ELSE <<>>
        /\ res' = NoResponse
        /\ UNCHANGED <<cfg, dbVars, clients, sockets, hist>>

\* mutant of WsClose: the claims of the disconnected identity are dropped
WsClose_dropsClaims(ws) ==
    LET clientId == sockets[ws].clientId
        cl == clientsDelete(clients, clientId)
        socks == [sockets EXCEPT ![ws] = FreeSocket]
    IN  /\ req' = [op |-> "ws close", target |-> Null, was |-> Null, clientId |-> clientId]
        /\ sockets[ws].readyState \in {"OPEN", "CLOSING"}
        /\ clients' = cl
        /\ sockets' = socks
        /\ sent' = <<broadcastClientList(cl, socks, client_names)>>
        /\ res' = NoResponse
        /\ hero_claims' = {r \in hero_claims : r.client_id # clientId}
        /\ UNCHANGED <<cfg, game_data, room_state, client_names, hist>>

\* ws.on('close'): the socket is CLOSED and its slot may be reused
WsClose(ws) ==
    LET clientId == sockets[ws].clientId
        cl == clientsDelete(clients, clientId)
        socks == [sockets EXCEPT ![ws] = FreeSocket]
    IN  /\ req' = [op |-> "ws close", target |-> Null, was |-> Null, clientId |-> clientId]
        /\ sockets[ws].readyState \in {"OPEN", "CLOSING"}
        /\ clients' = cl
        /\ sockets' = socks
        /\ sent' = <<broadcastClientList(cl, socks, client_names)>>
        /\ res' = NoResponse
        /\ UNCHANGED <<cfg, dbVars, hist>>

\* ws.on('error'): the socket leaves OPEN; its close event follows
WsError(ws) ==
    LET clientId == sockets[ws].clientId
    IN  /\ sockets[ws].readyState = "OPEN"
        /\ req' = [op |-> "ws error", target |-> Null, was |-> Null, clientId |-> clientId]
        /\ clients' = clientsDelete(clients, clientId)
        /\ sockets' = [sockets EXCEPT ![ws].readyState = "CLOSING"]
        /\ sent' = <<>>
        /\ res' = NoResponse
        /\ UNCHANGED <<cfg, dbVars, hist>>

(***************************************************************************)
(* The client hook useRoomSync, its WebSocket objects and its timers       *)
(***************************************************************************)
\* client WebSocket objects whose close event has not been dispatched
MaxHookSockets == 2
\* reconnect timers pending at the same time
MaxTimers == 2
\* frames received by a client WebSocket and not yet handled
MaxInbox == 2

HookSockets == 1..MaxHookSockets

\* a WebSocket object that does not exist (never made, or close dispatched)
NoWebSocket ==
    [readyState |-> "CLOSED", token |-> Null, clientId |-> Null, slot |-> 0,
     inbox |-> <<>>, code |-> 0, byTimer |-> FALSE]

\* useState<RoomSyncState>: the fields the claims are about
InitialState == [isConnected |-> FALSE, heroClaims |-> {}, authFailed |-> FALSE]

\* ConnectionSettings with the room server disabled
SettingsOff == [useRoomServer |-> FALSE, clientId |-> Null, authToken |-> Null]

\* the hook before its first render
HookBefore ==
    [mounted |-> "before", settings |-> SettingsOff, wsRef |-> 0,
     reconnectTimeoutRef |-> FALSE, hadSuccessfulConnectionRef |-> FALSE,
     state |-> InitialState]

\* the browser: no socket, no timer, the server reachable
BrowserIdle ==
    [sockets |-> [s \in HookSockets |-> NoWebSocket], timers |-> 0,
     reachable |-> TRUE]

\* no page uses the hook: no hook, no WebSocket object, no timer
HookOff == [mounted |-> "unmounted"]
BrowserOff == [sockets |-> <<>>, timers |-> 0]

\* ws.close(): a CONNECTING socket fails (close code 1006), an OPEN one
\* closes without a code (1005); its close event is dispatched later
wsClose(socks, ws) ==
    IF ws = 0 THEN socks
    ELSE IF socks[ws].readyState = "CONNECTING"
      THEN [socks EXCEPT ![ws].readyState = "CLOSING", ![ws].code = 1006]
    ELSE IF socks[ws].readyState = "OPEN"
      THEN [socks EXCEPT ![ws].readyState = "CLOSING", ![ws].code = 1005,
                         ![ws].inbox = <<>>]
    ELSE socks

\* new WebSocket(wsUrl): the object made next
newWebSocket(socks) ==
    CHOOSE ws \in HookSockets :
        /\ socks[ws].readyState = "CLOSED"
        /\ \A s \in HookSockets : s < ws => socks[s].readyState # "CLOSED"

\* the settings let connect() pass its first check (roomServerHost is set)
connectable(settings) == settings.useRoomServer /\ settings.clientId # Null

\* connect(): close the socket of wsRef, reset the tracker, open a socket
connect(h, b) ==
    LET closed == wsClose(b.sockets, h.wsRef)
        ws == newWebSocket(closed)
        wsUrl == IF h.settings.authToken # Null
                   THEN [token |-> h.settings.authToken, clientId |-> Null]
                   ELSE [token |-> Null, clientId |-> h.settings.clientId]
    IN  IF ~connectable(h.settings) THEN [hook |-> h, browser |-> b]
        ELSE [hook |-> [h EXCEPT !.hadSuccessfulConnectionRef = FALSE,
                                 !.wsRef = ws],
              browser |-> [b EXCEPT !.sockets =
                             [closed EXCEPT ![ws] =
                                [readyState |-> "CONNECTING", token |-> wsUrl.token,
                                 clientId |-> wsUrl.clientId, slot |-> 0,
                                 inbox |-> <<>>, code |-> 0, byTimer |-> FALSE]]]]

\* connect() can make its WebSocket object within MaxHookSockets
canConnect(h, b) ==
    connectable(h.settings) =>
        \E ws \in HookSockets : wsClose(b.sockets, h.wsRef)[ws].readyState = "CLOSED"

\* the cleanup of the connection effect
cleanup(h, b) ==
    [hook |-> [h EXCEPT !.reconnectTimeoutRef = FALSE, !.wsRef = 0],
     browser |-> [b EXCEPT !.timers = IF h.reconnectTimeoutRef THEN @ - 1 ELSE @,
                           !.sockets = wsClose(@, h.wsRef)]]

\* the body of the connection effect
effect(h, b) ==
    IF connectable(h.settings) THEN connect(h, b)
    ELSE [hook |-> [h EXCEPT !.wsRef = 0, !.state = InitialState,
                             !.hadSuccessfulConnectionRef = FALSE],
          browser |-> [b EXCEPT !.sockets = wsClose(@, h.wsRef)]]

\* ws.onmessage
onmessage(state, message) ==
    IF message.type = "init"
      THEN [state EXCEPT !.heroClaims = message.claims]
    ELSE IF message.type = "claim_changed"
      THEN [state EXCEPT !.heroClaims =
              {c \in @ : c.heroId # message.heroId}
                \cup (IF message.clientId # Null
                        THEN {[heroId |-> message.heroId,
                               clientId |-> message.clientId]}
                        ELSE {})]
    ELSE IF message.type = "room_reset"
      THEN [state EXCEPT !.heroClaims = {}]
    ELSE state

\* isAuthFailure of ws.onclose
isAuthFailure(wasAuthAttempt, hadSuccessfulConnection, code) ==
    wasAuthAttempt /\ ~hadSuccessfulConnection /\ code = 1006

\* the frames of a handler's sends that go to the server socket slot
frames(snt, slot) ==
    LET mine == SelectSeq(snt, LAMBDA m : slot \in m.to)
    IN  [i \in 1..Len(mine) |-> mine[i].msg]

\* the sends of a handler arrive at the client sockets that are OPEN
deliver(b, snt) ==
    [b EXCEPT !.sockets =
        [s \in HookSockets |->
            IF b.sockets[s].readyState = "OPEN"
              THEN [b.sockets[s] EXCEPT !.inbox = @ \o frames(snt, b.sockets[s].slot)]
              ELSE b.sockets[s]]]

inboxesFit(b) == \A s \in HookSockets : Len(b.sockets[s].inbox) <= MaxInbox

\* a step of the hook alone: the server is left as it is
hookEvent(op) ==
    /\ req' = [op |-> op, target |-> Null, was |-> Null, clientId |-> Null]
    /\ res' = NoResponse
    /\ sent' = <<>>
    /\ UNCHANGED <<cfg, dbVars, clients, sockets, hist>>

\* first render, or a render with other settings: the cleanup of the previous
\* effect, then the effect
HookRender(settings) ==
    LET c == IF hook.mounted = "mounted" THEN cleanup(hook, browser)
             ELSE [hook |-> hook, browser |-> browser]
        h == [c.hook EXCEPT !.settings = settings, !.mounted = "mounted"]
        e == effect(h, c.browser)
    IN  /\ hook.mounted # "unmounted"
        /\ hook.mounted = "mounted" => settings # hook.settings
        /\ canConnect(h, c.browser)
        /\ hook' = e.hook
        /\ browser' = e.browser
        /\ hookEvent("render")

\* the component unmounts: the cleanup of the effect
HookUnmount ==
    LET c == cleanup(hook, browser)
    IN  /\ hook.mounted = "mounted"
        /\ hook' = [c.hook EXCEPT !.mounted = "unmounted"]
        /\ browser' = c.browser
        /\ hookEvent("unmount")

\* a reconnect timer fires: connectRef.current(); held tells whether it is
\* the timer reconnectTimeoutRef holds.  The socket it makes is marked byTimer.
HookTimer(held) ==
    LET h == IF held THEN [hook EXCEPT !.reconnectTimeoutRef = FALSE] ELSE hook
        b == [browser EXCEPT !.timers = @ - 1]
        c == connect(h, b)
    IN  /\ IF held THEN hook.reconnectTimeoutRef
                   ELSE browser.timers > (IF hook.reconnectTimeoutRef THEN 1 ELSE 0)
        /\ canConnect(h, b)
        /\ hook' = c.hook
        /\ browser' = IF connectable(h.settings)
                        THEN [c.browser EXCEPT !.sockets[c.hook.wsRef].byTimer = TRUE]
                        ELSE c.browser
        /\ hookEvent("timer")

\* the server answers the upgrade request of a CONNECTING socket: it accepts
\* (ws.onopen, the init and clients frames arrive) or refuses
HookHandshake(s, ws) ==
    LET sock == browser.sockets[s]
        opened == [browser EXCEPT !.sockets[s].readyState = "OPEN",
                                  !.sockets[s].slot = ws]
        failed == [browser EXCEPT !.sockets[s].readyState = "CLOSING",
                                  !.sockets[s].code = 1006]
    IN  /\ sock.readyState = "CONNECTING"
        /\ browser.reachable
        /\ WsConnect(sock.token, sock.clientId, ws)
        /\ IF res'.status = 101
             THEN /\ browser' = deliver(opened, sent')
                  /\ hook' = [hook EXCEPT !.hadSuccessfulConnectionRef = TRUE,
                                          !.state.isConnected = TRUE,
                                          !.state.authFailed = FALSE]
             ELSE /\ browser' = failed
                  /\ hook' = hook
        /\ inboxesFit(browser')

\* the connection attempt of a CONNECTING socket fails: no server is reached
HookUnreachable(s) ==
    /\ browser.sockets[s].readyState = "CONNECTING"
    /\ ~browser.reachable
    /\ browser' = [browser EXCEPT !.sockets[s].readyState = "CLOSING",
                                  !.sockets[s].code = 1006]
    /\ hook' = hook
    /\ hookEvent("connection failed")

\* ws.onmessage on the oldest frame not yet handled
HookOnMessage(s) ==
    /\ browser.sockets[s].readyState = "OPEN"
    /\ browser.sockets[s].inbox # <<>>
    /\ hook' = [hook EXCEPT !.state = onmessage(@, Head(browser.sockets[s].inbox))]
    /\ browser' = [browser EXCEPT !.sockets[s].inbox = Tail(@)]
    /\ hookEvent("onmessage")

\* ws.onclose: the close event of a socket is dispatched
HookOnClose(s) ==
    LET sock == browser.sockets[s]
        authFailure == isAuthFailure(sock.token # Null,
                                     hook.hadSuccessfulConnectionRef, sock.code)
    IN  /\ sock.readyState = "CLOSING"
        /\ authFailure \/ browser.timers < MaxTimers
        /\ hook' = IF authFailure
                     THEN [hook EXCEPT !.wsRef = 0, !.state.isConnected = FALSE,
                                       !.state.authFailed = TRUE]
                     ELSE [hook EXCEPT !.wsRef = 0, !.state.isConnected = FALSE,
                                       !.reconnectTimeoutRef = TRUE]
        /\ browser' = [browser EXCEPT !.sockets[s] = NoWebSocket,
                                      !.timers = IF authFailure THEN @ ELSE @ + 1]
        /\ hookEvent("onclose")

\* the server stops being reachable: every open connection is lost
NetDown ==
    /\ browser.reachable
    /\ browser' = [browser EXCEPT
                     !.reachable = FALSE,
                     !.sockets = [s \in HookSockets |->
                                    IF @[s].readyState = "OPEN"
                                      THEN [@[s] EXCEPT !.readyState = "CLOSING",
                                                        !.code = 1006,
                                                        !.inbox = <<>>]
                                      ELSE @[s]]]
    /\ hook' = hook
    /\ hookEvent("net down")

\* the server is reachable again
NetUp ==
    /\ ~browser.reachable
    /\ browser' = [browser EXCEPT !.reachable = TRUE]
    /\ hook' = hook
    /\ hookEvent("net up")

\* the frames a server handler sends arrive at the client
Delivered ==
    /\ browser' = deliver(browser, sent')
    /\ inboxesFit(browser')
    /\ hook' = hook

\* the server sees the close of a socket whose client end is no longer open
ServerClose(ws) ==
    /\ \A s \in HookSockets :
          browser.sockets[s].readyState = "OPEN" => browser.sockets[s].slot # ws
    /\ WsClose(ws)
    /\ Delivered

(***************************************************************************)
(* Specification                                                           *)
(***************************************************************************)
\* Each run draws one scope: the inputs its requests are made of.  A scope is
\* wide in one part of the server and narrow in the others.
ScopeData ==
    [keys |-> Keys, payloads |-> AllPayloads, heroes |-> {"h1"}, ids |-> {"a"},
     tokens |-> {}, names |-> {}, authConfigured |-> FALSE, sockets |-> FALSE]
ScopeClaims ==
    [keys |-> {"k1"}, payloads |-> {JObj("1")}, heroes |-> Heroes, ids |-> Ids,
     tokens |-> {}, names |-> {}, authConfigured |-> FALSE, sockets |-> FALSE]
ScopeAuthority ==
    [keys |-> {"k1"}, payloads |-> {JObj("1")}, heroes |-> {"h1"}, ids |-> Ids,
     tokens |-> Users \cup {BadToken}, names |-> {}, authConfigured |-> TRUE,
     sockets |-> FALSE]
ScopeNames ==
    [keys |-> {"k1"}, payloads |-> {JObj("1")}, heroes |-> {"h1"}, ids |-> {"a", "b"},
     tokens |-> {}, names |-> {"N", "M"}, authConfigured |-> FALSE, sockets |-> FALSE]
ScopeFanoutData ==
    [keys |-> {"k1"}, payloads |-> {JObj("1")}, heroes |-> {}, ids |-> {"a", "u"},
     tokens |-> {}, names |-> {}, authConfigured |-> FALSE, sockets |-> TRUE]
ScopeFanoutClaims ==
    [keys |-> {}, payloads |-> {}, heroes |-> {"h1"}, ids |-> {"a", "u"},
     tokens |-> {}, names |-> {}, authConfigured |-> FALSE, sockets |-> TRUE]
ScopeFanoutDirector ==
    [keys |-> {}, payloads |-> {}, heroes |-> {}, ids |-> {"a", "u"},
     tokens |-> {"u"}, names |-> {}, authConfigured |-> FALSE, sockets |-> TRUE]
ScopeHandshake ==
    [keys |-> {"k1"}, payloads |-> {JObj("1")}, heroes |-> {}, ids |-> {"a"},
     tokens |-> {"u", BadToken}, names |-> {}, authConfigured |-> TRUE,
     sockets |-> TRUE]
ScopeSnapshot ==
    [keys |-> {}, payloads |-> {}, heroes |-> {}, ids |-> {"a", "u"},
     tokens |-> {"b"}, names |-> {}, authConfigured |-> FALSE, sockets |-> TRUE]
Scopes ==
    {ScopeData, ScopeClaims, ScopeAuthority, ScopeNames, ScopeFanoutData,
     ScopeFanoutClaims, ScopeFanoutDirector, ScopeHandshake, ScopeSnapshot}

\* the server after start on an empty database
InitServer ==
    /\ game_data = {}
    /\ hero_claims = {}
    /\ room_state = {}
    /\ client_names = {}
    /\ clients = {}
    /\ sockets = [s \in Slots |-> FreeSocket]
    /\ req = [op |-> "start", target |-> Null, was |-> Null, clientId |-> Null]
    /\ res = NoResponse
    /\ sent = <<>>
    /\ returned = [k \in Keys |-> <<>>]
    /\ lastWritten = [k \in Keys |-> {}]
    /\ allUncond = [k \in Keys |-> TRUE]

Init == cfg \in Scopes /\ InitServer /\ hook = HookOff /\ browser = BrowserOff

Next ==
    \/ \E key \in cfg.keys : GetData(key) /\ UNCHANGED hookVars
    \/ \E key \in cfg.keys, data \in cfg.payloads, ev \in ExpectedVersions,
          clientId \in XClientIds :
            PutData(key, data, ev, clientId) /\ UNCHANGED hookVars
    \/ \E authorization \in Authorizations, xClientId \in XClientIds,
          xClientName \in XClientNames :
            \E uuid \in IF xClientId = Null /\ ~verifySessionToken(authorization).ok
                           THEN FreshIds ELSE {Null} :
                Connect(authorization, xClientId, xClientName, uuid) /\ UNCHANGED hookVars
    \/ \E heroId \in cfg.heroes, clientId \in XClientIds : ClaimHero(heroId, clientId) /\ UNCHANGED hookVars
    \/ \E heroId \in cfg.heroes, clientId \in XClientIds : ReleaseHero(heroId, clientId) /\ UNCHANGED hookVars
    \/ \E clientId \in XClientIds : ResetRoom(clientId) /\ UNCHANGED hookVars
    \/ \E authorization \in Authorizations : DirectorStatus(authorization) /\ UNCHANGED hookVars
    \/ \E authorization \in Authorizations : DirectorClaim(authorization) /\ UNCHANGED hookVars
    \/ \E authorization \in Authorizations : DirectorRelease(authorization) /\ UNCHANGED hookVars
    \/ \E token \in Authorizations, clientId \in XClientIds, ws \in Slots :
            WsConnect(token, clientId, ws) /\ UNCHANGED hookVars
    \/ \E ws \in Slots, type \in {"ping", "request_sync"}, key \in cfg.keys :
            WsMessage(ws, type, key) /\ UNCHANGED hookVars
    \/ \E ws \in Slots : WsClose(ws) /\ UNCHANGED hookVars
    \/ \E ws \in Slots : WsError(ws) /\ UNCHANGED hookVars

Spec == Init /\ [][Next]_vars

(***************************************************************************)
(* Specification of the hook against the server                            *)
(***************************************************************************)
SettingsLegacy == [useRoomServer |-> TRUE, clientId |-> "u", authToken |-> Null]
SettingsToken == [useRoomServer |-> TRUE, clientId |-> "u", authToken |-> "u"]

\* a legacy client (identifier in the URL) with fixed settings, beside another
\* identity that claims, releases and resets
HookScopeSyncLegacy ==
    [keys |-> {}, payloads |-> {}, heroes |-> {"h1"}, ids |-> {"a"},
     tokens |-> {}, names |-> {}, authConfigured |-> FALSE, sockets |-> TRUE,
     settings |-> {SettingsLegacy}, unmounts |-> FALSE]
\* a bearer-token client with fixed settings
HookScopeRetryToken ==
    [keys |-> {}, payloads |-> {}, heroes |-> {}, ids |-> {},
     tokens |-> {}, names |-> {}, authConfigured |-> TRUE, sockets |-> TRUE,
     settings |-> {SettingsToken}, unmounts |-> FALSE]
\* a legacy client whose settings change and whose component unmounts
HookScopeLifeLegacy ==
    [keys |-> {}, payloads |-> {}, heroes |-> {}, ids |-> {},
     tokens |-> {}, names |-> {}, authConfigured |-> FALSE, sockets |-> TRUE,
     settings |-> {SettingsLegacy, SettingsOff}, unmounts |-> TRUE]
\* a bearer-token client whose settings change and whose component unmounts
HookScopeLifeToken ==
    [keys |-> {}, payloads |-> {}, heroes |-> {}, ids |-> {},
     tokens |-> {}, names |-> {}, authConfigured |-> TRUE, sockets |-> TRUE,
     settings |-> {SettingsToken, SettingsOff}, unmounts |-> TRUE]
HookScopes ==
    {HookScopeSyncLegacy, HookScopeRetryToken, HookScopeLifeLegacy, HookScopeLifeToken}

InitHook ==
    /\ cfg \in HookScopes
    /\ InitServer
    /\ hook = HookBefore
    /\ browser = BrowserIdle

NextHook ==
    \/ \E settings \in cfg.settings : HookRender(settings)
    \/ cfg.unmounts /\ HookUnmount
    \/ \E held \in BOOLEAN : HookTimer(held)
    \/ \E s \in HookSockets, ws \in Slots : HookHandshake(s, ws)
    \/ \E s \in HookSockets : HookUnreachable(s)
    \/ \E s \in HookSockets : HookOnMessage(s)
    \/ \E s \in HookSockets : HookOnClose(s)
    \/ NetDown
    \/ NetUp
    \/ \E ws \in Slots : ServerClose(ws)
    \/ \E xClientId \in cfg.ids : Connect(Null, xClientId, Null, Null) /\ Delivered
    \/ \E heroId \in cfg.heroes, clientId \in cfg.ids :
            ClaimHero(heroId, clientId) /\ Delivered
    \/ \E heroId \in cfg.heroes, clientId \in cfg.ids :
            ReleaseHero(heroId, clientId) /\ Delivered
    \/ \E clientId \in cfg.ids : ResetRoom(clientId) /\ Delivered

SpecHook == InitHook /\ [][NextHook]_vars

(***************************************************************************)
(* What the claims read off the state                                      *)
(***************************************************************************)
\* the document stored under a key: {} or its single row
Stored(gd, key) == {r \in gd : r.key = key}
\* the owner of a hero's claim, Null when there is none
Owner(hc, heroId) ==
    IF \E r \in hc : r.hero_id = heroId
      THEN (CHOOSE r \in hc : r.hero_id = heroId).client_id ELSE Null
\* the authority (director): the value of the row dm_client_id, Null when absent
Authority(rs) ==
    IF \E r \in rs : r.key = "dm_client_id"
      THEN (CHOOSE r \in rs : r.key = "dm_client_id").value ELSE Null
\* the sends of the last handler whose message has the given type
SentOfType(type) == {i \in 1..Len(sent) : sent[i].msg.type = type}
\* whether the row dm_is_discord_user holds 'true'
AuthorityIsVerified(rs) ==
    \E r \in rs : r.key = "dm_is_discord_user" /\ r.value = "true"
\* the identity a request's credentials denote: the user of a Bearer token
\* that verifies, the x-client-id header otherwise
Requester(authorization, xClientId) ==
    connectIdentity(authorization, xClientId, Null, Null).clientId
\* the role of an id's entry in the connection registry, Null when not connected
LiveRole(cl, clientId) ==
    IF \E c \in cl : c.id = clientId
      THEN (CHOOSE c \in cl : c.id = clientId).role ELSE Null

(***************************************************************************)
(* Documents: C1 - C5                                                      *)
(***************************************************************************)
\* C1: for a key that started absent and whose successful writes all came
\* without expectedVersion, the N writes returned 1, 2, ..., N in order, the
\* stored version is N and the stored data is that of the last write.
C1_UnconditionalWritesCount ==
    \A k \in Keys :
        allUncond[k] =>
            /\ returned[k] = [i \in 1..Len(returned[k]) |-> i]
            /\ IF returned[k] = <<>>
                 THEN Stored(game_data, k) = {} /\ lastWritten[k] = {}
                 ELSE \E d \in lastWritten[k] :
                        Stored(game_data, k) =
                            {[key |-> k, data |-> d, version |-> Len(returned[k])]}

C1_Witness ==
    \E k \in Keys :
        /\ allUncond[k]
        /\ Len(returned[k]) >= 2
        /\ req.op = "PUT /data" /\ req.target = k /\ res.status = 200

\* C2: a write with expectedVersion v succeeds iff the key has a stored row
\* whose version is v (a key without a document has no stored version); on
\* success the stored data is the new data and the stored and the returned
\* version are v + 1.
C2_ConditionalWriteIff ==
    [][ \A k \in {req'.target} \cap (IF req'.op = "PUT /data" THEN Keys ELSE {}),
           d \in cfg.payloads, v \in 0..MaxVersion :
          PutData(k, d, {v}, req'.clientId) =>
            IF \E r \in Stored(game_data, k) : r.version = v
              THEN /\ res'.status = 200
                   /\ res'.body.version = v + 1
                   /\ Stored(game_data', k) =
                        {[key |-> k, data |-> dataString(d), version |-> v + 1]}
              ELSE res'.status # 200 ]_vars

C2_Witness ==
    \E k \in Keys :
        /\ ~allUncond[k]
        /\ req.op = "PUT /data" /\ req.target = k
        /\ res.status = 200 /\ res.body.version = 2
        /\ \E r \in Stored(game_data, k) : r.version = 2

\* C3: a write whose expectedVersion is not the stored version (or whose key
\* has no document) is answered with an error and leaves game_data as it
\* was; the same write on the resulting state is rejected again and again
\* changes nothing.
C3_StaleWriteChangesNothing ==
    [][ \A k \in {req'.target} \cap (IF req'.op = "PUT /data" THEN Keys ELSE {}),
           d \in cfg.payloads :
          LET stale == {v \in 0..MaxVersion :
                          ~ \E r \in Stored(game_data, k) : r.version = v}
          IN  (\E v \in stale : PutData(k, d, {v}, req'.clientId))
              => /\ res'.status >= 400
                 /\ game_data' = game_data
                 /\ returned' = returned
                 /\ \A v \in stale :
                      LET again == setData(game_data', k, dataString(d), {v})
                      IN  again.returning = {} /\ again.rows = game_data' ]_vars
C3_Witness ==
    /\ req.op = "PUT /data"
    /\ res.status = 409
    /\ \E r \in Stored(game_data, req.target) : r.version = 2
    /\ \E k \in Keys \ {req.target} : Stored(game_data, k) # {}

\* C4: every rejected conditional write is answered 409, and when the key has
\* a document the response carries the stored version and the stored payload.
C4_ConflictReportsStored ==
    [][ \A k \in {req'.target} \cap (IF req'.op = "PUT /data" THEN Keys ELSE {}),
           d \in cfg.payloads, v \in 0..MaxVersion :
          ( /\ ~ \E r \in Stored(game_data, k) : r.version = v
            /\ PutData(k, d, {v}, req'.clientId) )
          => /\ res'.status = 409
             /\ \A r \in Stored(game_data, k) :
                    /\ res'.body.currentVersion = r.version
                    /\ dataString(res'.body.data) = r.data ]_vars

\* C5: no step lowers the version of a stored document or removes a
\* document, and a successful write returns a version greater than every
\* version returned before for its key.
C5_VersionsMonotone ==
    [][ /\ \A r \in game_data :
              \E n \in game_data' : n.key = r.key /\ n.version >= r.version
        /\ \A k \in Keys :
              returned'[k] # returned[k] =>
                /\ Len(returned'[k]) = Len(returned[k]) + 1
                /\ \A i \in 1..Len(returned[k]) :
                      returned[k][i] < returned'[k][Len(returned'[k])]
                /\ res'.body.version = returned'[k][Len(returned'[k])] ]_vars

C5_Witness ==
    /\ req.op = "POST /reset" /\ res.status = 200
    /\ \E r \in game_data : r.version >= 2

(***************************************************************************)
(* Claims: C6 - C9                                                         *)
(***************************************************************************)
\* C6: a claim of a hero owned by A, requested by B # A who is not the
\* authority, is answered 409 with claimedBy = A and the owner stays A.
C6_ClaimByOtherRejected ==
    [][ ( /\ req'.op = "POST /heroes/claim"
          /\ req'.clientId # Null
          /\ Owner(hero_claims, req'.target) # Null
          /\ Owner(hero_claims, req'.target) # req'.clientId
          /\ Authority(room_state) # req'.clientId )
        => /\ res'.status = 409
           /\ res'.body.claimedBy = Owner(hero_claims, req'.target)
           /\ hero_claims' = hero_claims ]_vars

C6_Witness ==
    /\ req.op = "POST /heroes/claim"
    /\ res.status = 409
    /\ res.body.claimedBy = Owner(hero_claims, req.target)
    /\ req.clientId \notin {Null, res.body.claimedBy, Authority(room_state)}

\* C7: a release requested by an identity that is neither the owner nor the
\* authority answers success: false, leaves hero_claims unchanged and sends
\* no claim_changed.
C7_ReleaseByStrangerNoOp ==
    [][ ( /\ req'.op = "DELETE /heroes/claim"
          /\ req'.clientId # Null
          /\ Owner(hero_claims, req'.target) # req'.clientId
          /\ Authority(room_state) # req'.clientId )
        => /\ res'.status = 200
           /\ res'.body.success = FALSE
           /\ hero_claims' = hero_claims
           /\ SentOfType("claim_changed")' = {} ]_vars

C7_Witness ==
    /\ req.op = "DELETE /heroes/claim"
    /\ res.status = 200 /\ res.body.success = FALSE
    /\ Owner(hero_claims, req.target) \notin {Null, req.clientId}
    /\ Authority(room_state) \notin {Null, req.clientId}

\* C8: a release requested by the authority leaves the hero unclaimed whoever
\* owned it (answering success: true when there was a claim), and a claim of
\* an unclaimed hero by any identity, the authority or not, succeeds and
\* makes the requester the owner.
C8_AuthorityReleasesAny ==
    [][ /\ ( /\ req'.op = "DELETE /heroes/claim"
             /\ req'.clientId # Null
             /\ Authority(room_state) = req'.clientId )
           => /\ Owner(hero_claims', req'.target) = Null
              /\ res'.body.success = (Owner(hero_claims, req'.target) # Null)
        /\ ( /\ req'.op = "POST /heroes/claim"
             /\ req'.clientId # Null
             /\ Owner(hero_claims, req'.target) = Null )
           => /\ res'.status = 200 /\ res'.body.success = TRUE
              /\ Owner(hero_claims', req'.target) = req'.clientId ]_vars

\* the authority has just released a hero that another identity owned
C8_Witness ==
    /\ req.op = "DELETE /heroes/claim"
    /\ req.clientId = Authority(room_state)
    /\ res.status = 200 /\ res.body.success = TRUE
    /\ Owner(hero_claims, req.target) = Null
    /\ req.was \notin {Null, req.clientId}

\* C9: a claim requested by the authority succeeds whoever owns the hero, and
\* the owner is then the authority.
C9_AuthorityClaimsAny ==
    [][ ( /\ req'.op = "POST /heroes/claim"
          /\ req'.clientId # Null
          /\ Authority(room_state) = req'.clientId )
        => /\ res'.status = 200 /\ res'.body.success = TRUE
           /\ Owner(hero_claims', req'.target) = req'.clientId ]_vars

\* the authority has just claimed a hero that another identity owned
C9_Witness ==
    /\ req.op = "POST /heroes/claim"
    /\ req.clientId = Authority(room_state)
    /\ req.was \notin {Null, req.clientId}
    /\ res.status = 200
    /\ Owner(hero_claims, req.target) = req.clientId

(***************************************************************************)
(* Authority: C10                                                          *)
(***************************************************************************)
\* C10: a connect while no authority is set answers role dm and makes the
\* connecting identity the authority; a connect by another identity while an
\* authority is set answers role player and leaves room_state unchanged.
C10_FirstConnectIsDirector ==
    [][ req'.op = "GET /connect" =>
          /\ res'.body.clientId = req'.clientId
          /\ IF Authority(room_state) = Null
               THEN /\ res'.body.role = "dm"
                    /\ Authority(room_state') = req'.clientId
               ELSE req'.clientId # Authority(room_state) =>
                        /\ res'.body.role = "player"
                        /\ room_state' = room_state ]_vars

C10_Witness ==
    /\ req.op = "GET /connect"
    /\ res.body.role = "player"
    /\ Authority(room_state) \notin {Null, req.clientId}

(***************************************************************************)
(* Authority: C11 - C20                                                    *)
(***************************************************************************)
\* C11: in every reachable state each entry of the connection registry has
\* role dm if and only if its id is the stored authority id.
C11_LiveRoleMatchesAuthority ==
    \A c \in clients : (c.role = "dm") <=> (c.id = Authority(room_state))

\* C12: when an unverified identity A holds the authority and is connected
\* and a verified identity B # A claims the authority, the call succeeds,
\* the authority becomes B with the verified flag set, B's registry entry
\* (if any) has role dm and A's registry entry has role player.
C12_ClaimDemotesOldDirector ==
    [][ \A B \in Users \cap cfg.tokens :
          ( /\ Authority(room_state) \notin {Null, B}
            /\ ~AuthorityIsVerified(room_state)
            /\ LiveRole(clients, Authority(room_state)) # Null
            /\ DirectorClaim(B) )
          => /\ res'.status = 200
             /\ Authority(room_state') = B
             /\ AuthorityIsVerified(room_state')
             /\ LiveRole(clients', B) \in {Null, "dm"}
             /\ LiveRole(clients', Authority(room_state)) = "player" ]_vars

C14_ClaimRejectedOnlyForOtherHolder ==
    [][ \A U \in Users \cap cfg.tokens :
          DirectorClaim(U)
          => /\ res'.status = 403
                  => /\ Authority(room_state) \notin {Null, U}
                     /\ AuthorityIsVerified(room_state)
             /\ Authority(room_state) = U
                  => /\ res'.status = 200
                     /\ Authority(room_state') = U ]_vars

\* C15: a release of the authority requested by the identity that holds it,
\* verified or not, succeeds and leaves the room vacant: no authority id
\* and the verified flag not set.
C15_HolderReleaseSucceeds ==
    [][ \A authorization \in Authorizations, xClientId \in XClientIds :
          ( /\ Authority(room_state) # Null
            /\ Requester(authorization, xClientId) = Authority(room_state)
            /\ DirectorRelease(authorization) )
          => /\ res'.status = 200
             /\ Authority(room_state') = Null
             /\ ~AuthorityIsVerified(room_state') ]_vars

\* C16: a release of the authority requested by an identity that
\* is not the authority (or on a vacant room) is answered 403, leaves
\* room_state, the registry and the claims as they were and sends no
\* director_changed.
C16_StrangerReleaseIs403 ==
    [][ \A authorization \in Authorizations, xClientId \in XClientIds :
          ( /\ Requester(authorization, xClientId) # Null
            /\ Requester(authorization, xClientId) # Authority(room_state)
            /\ DirectorRelease(authorization) )
          => /\ res'.status = 403
             /\ room_state' = room_state
             /\ clients' = clients
             /\ hero_claims' = hero_claims
             /\ \A i \in 1..Len(sent') : sent'[i].msg.type # "director_changed" ]_vars

\* C17: a reset of the room requested by the authority deletes every claim,
\* every room_state row (authority id and verified flag) and every display
\* name, and leaves game_data (payloads and versions) as it was.
C17_ResetClearsRoomKeepsData ==
    [][ \A clientId \in XClientIds \ {Null} :
          ( clientId = Authority(room_state) /\ ResetRoom(clientId) )
          => /\ res'.status = 200
             /\ hero_claims' = {}
             /\ Authority(room_state') = Null
             /\ ~AuthorityIsVerified(room_state')
             /\ room_state' = {}
             /\ client_names' = {}
             /\ game_data' = game_data ]_vars

C17_Witness ==
    /\ req.op = "POST /reset"
    /\ res.status = 200
    /\ hero_claims = {} /\ room_state = {} /\ client_names = {}
    /\ \E r \in game_data : r.version = 2

\* C18: a reset of the room requested by an identity that is not the
\* authority (a request without x-client-id and any request on a vacant
\* room included) is answered 403, leaves the four tables as they were and
\* sends no room_reset.
C18_StrangerResetRejected ==
    [][ \A clientId \in XClientIds :
          ( /\ \/ clientId = Null
               \/ clientId # Authority(room_state)
            /\ ResetRoom(clientId) )
          => /\ res'.status = 403
             /\ UNCHANGED dbVars
             /\ \A i \in 1..Len(sent') : sent'[i].msg.type # "room_reset" ]_vars

C18_Witness ==
    /\ req.op = "POST /reset"
    /\ res.status = 403
    /\ req.clientId # Null
    /\ Authority(room_state) \notin {Null, req.clientId}
    /\ Owner(hero_claims, "h1") = req.clientId

\* C19: while a verified identity V holds the authority, a request that
\* carries no valid credential of V, whatever x-client-id it supplies, does
\* not reset the room, does not remove or overwrite a claim owned by an
\* identity other than the one it supplies, is not answered role dm by
\* connect, and does not change the authority.
C19_NoCredentialNoPrivilege ==
    [][ \A V \in Users :
          ( Authority(room_state) = V /\ AuthorityIsVerified(room_state) )
          => \A authorization \in Authorizations \ {V}, xClientId \in XClientIds :
               /\ ResetRoom(actingIdentity(authorization, xClientId))
                    => res'.status = 403 /\ room_state' = room_state
               /\ \A heroId \in cfg.heroes :
                    Owner(hero_claims, heroId) \notin {Null, xClientId}
                    => /\ ClaimHero(heroId, actingIdentity(authorization, xClientId))
                            => hero_claims' = hero_claims
                       /\ ReleaseHero(heroId, actingIdentity(authorization, xClientId))
                            => hero_claims' = hero_claims
               /\ \A xClientName \in XClientNames, uuid \in FreshIds \cup {Null} :
                    Connect(authorization, xClientId, xClientName, uuid)
                    => res'.body.role # "dm" /\ room_state' = room_state
               /\ DirectorClaim(authorization) => room_state' = room_state
               /\ DirectorRelease(authorization) => room_state' = room_state ]_vars

\* C20: the acting identity of a claim, a release, a reset and a write is
\* the user of the request's Bearer token when it verifies and the
\* x-client-id otherwise: a claim that succeeds makes that identity the
\* owner, a claim on an unclaimed hero that carries only a valid token of U
\* makes U the owner, a release removes a claim only of that identity or
\* when that identity is the authority, a reset succeeds exactly when that
\* identity is the authority, and a write excludes that identity from the
\* data_changed fanout.
C20_ActingIdentityIsResolved ==
    [][ \A authorization \in Authorizations, xClientId \in XClientIds :
          LET who == Requester(authorization, xClientId)
              clientId == actingIdentity(authorization, xClientId)
          IN  /\ \A heroId \in cfg.heroes :
                   /\ ClaimHero(heroId, clientId)
                        => /\ res'.status = 200 => Owner(hero_claims', heroId) = who
                           /\ ( /\ xClientId = Null
                                /\ verifySessionToken(authorization).ok
                                /\ Owner(hero_claims, heroId) = Null )
                                => /\ res'.status = 200
                                   /\ Owner(hero_claims', heroId) = authorization
                   /\ ReleaseHero(heroId, clientId)
                        => ( hero_claims' # hero_claims
                             => who \in {Owner(hero_claims, heroId), Authority(room_state)} )
              /\ ResetRoom(clientId)
                   => ( res'.status = 200 <=> (who # Null /\ who = Authority(room_state)) )
              /\ \A key \in {req'.target} \cap Keys, data \in cfg.payloads,
                     expectedVersion \in ExpectedVersions :
                   ( PutData(key, data, expectedVersion, clientId) /\ res'.status = 200 )
                   => \A i \in 1..Len(sent') :
                        sent'[i] = broadcast(clients, sockets, sent'[i].msg, who) ]_vars

(***************************************************************************)
(* Channels and fanout: C21 - C30                                          *)
(***************************************************************************)
\* C21: on a server with auth configured, a WebSocket handshake whose token
\* is missing or does not verify is refused with 401 and registers nothing,
\* and no registry entry is ever under an id that is not a token's user;
\* GET /connect with a Bearer token that does not verify is answered 200
\* under the x-client-id of the request.
C21_HandshakeRefusedConnectFallsBack ==
    [][ cfg.authConfigured
        => /\ \A token \in Authorizations, queryClientId \in XClientIds, ws \in Slots :
                 ( /\ token = Null \/ ~verifySessionToken(token).ok
                   /\ req'.op = "ws connection"
                   /\ WsConnect(token, queryClientId, ws) )
                 => /\ res'.status = 401
                    /\ clients' = clients
                    /\ sockets' = sockets
           /\ \A c \in clients' : c.id \in Users
           /\ \A xClientId \in XClientIds \ {Null}, xClientName \in XClientNames :
                 ( /\ BadToken \in cfg.tokens
                   /\ req'.op = "GET /connect"
                   /\ Connect(BadToken, xClientId, xClientName, Null) )
                 => /\ res'.status = 200
                    /\ res'.body.clientId = xClientId ]_vars

C21_Witness ==
    /\ cfg.authConfigured /\ cfg.sockets
    /\ req.op = "ws connection" /\ res.status = 401
    /\ Authority(room_state) \in cfg.ids \ Users
    /\ ~AuthorityIsVerified(room_state)
    /\ clients # {}

\* C22: a successful write sends exactly one data_changed{key, version},
\* to every registered channel whose socket is OPEN other than the channel
\* of the writer, the writer being the user of the request's Bearer token
\* when it verifies and its x-client-id otherwise.
C22_WriterExcludedFromFanout ==
    [][ \A authorization \in Authorizations, xClientId \in XClientIds :
          \A key \in {req'.target} \cap (IF req'.op = "PUT /data" THEN Keys ELSE {}),
             data \in cfg.payloads, expectedVersion \in ExpectedVersions :
            ( /\ PutData(key, data, expectedVersion,
                         actingIdentity(authorization, xClientId))
              /\ res'.status = 200 )
            => /\ Len(sent') = 1
               /\ sent'[1].msg = [type |-> "data_changed", key |-> key,
                                  version |-> res'.body.version]
               /\ sent'[1].to =
                    {c.ws : c \in {d \in clients :
                        /\ sockets[d.ws].readyState = "OPEN"
                        /\ d.id # Requester(authorization, xClientId)}} ]_vars

\* the sockets of the registered clients that are OPEN
OpenChannels(cl, socks) ==
    {c.ws : c \in {d \in cl : socks[d.ws].readyState = "OPEN"}}

\* C23: a claim that succeeds sends one claim_changed with the hero and
\* the new owner to every open registered channel, a release that removed
\* a claim sends one claim_changed with the hero and a null owner, and a
\* rejected claim and a release that removed nothing send nothing.
C23_ClaimChangedEmitted ==
    [][ \A heroId \in cfg.heroes \cap {req'.target}, clientId \in {req'.clientId} :
          /\ ClaimHero(heroId, clientId)
               => sent' = IF res'.status = 200
                            THEN << [msg |-> [type |-> "claim_changed",
                                              heroId |-> heroId,
                                              clientId |-> Owner(hero_claims', heroId)],
                                     to |-> OpenChannels(clients, sockets)] >>
                            ELSE <<>>
          /\ ReleaseHero(heroId, clientId)
               => sent' = IF hero_claims' # hero_claims
                            THEN << [msg |-> [type |-> "claim_changed",
                                              heroId |-> heroId, clientId |-> Null],
                                     to |-> OpenChannels(clients, sockets)] >>
                            ELSE <<>> ]_vars

C23_Witness ==
    /\ req.op = "DELETE /heroes/claim"
    /\ res.status = 200 /\ res.body.success
    /\ Len(sent) = 1
    /\ Cardinality(sent[1].to) = 2
    /\ sent[1].msg.clientId = Null

\* C24: every step that changes the authority id or its verified flag
\* (acquisition by the first connect, claim, release, reset) sends a
\* director_changed carrying the new authority id (Null for none) and the
\* new verified flag.
C24_DirectorChangedEmitted ==
    [][ ( \/ Authority(room_state') # Authority(room_state)
          \/ AuthorityIsVerified(room_state') # AuthorityIsVerified(room_state) )
        => \E i \in 1..Len(sent') :
             /\ sent'[i].msg.type = "director_changed"
             /\ sent'[i].msg.dmClientId = Authority(room_state')
             /\ sent'[i].msg.dmIsDiscordUser = AuthorityIsVerified(room_state') ]_vars

\* C25: when a connection is registered on socket ws, the first message
\* sent is the init snapshot, sent to ws alone, and its claims, display
\* names (of every row of client_names, registered or not), client list
\* and director info are the server's state at that moment; the second
\* message is the clients list, sent to every other open registered
\* channel.
C25_InitSnapshotThenClients ==
    [][ \A token \in Authorizations, queryClientId \in XClientIds, ws \in Slots :
          ( /\ req'.op = "ws connection" /\ res'.status = 101
            /\ sockets'[ws] # sockets[ws]
            /\ WsConnect(token, queryClientId, ws) )
          => /\ Len(sent') = 2
             /\ sent'[1].to = {ws}
             /\ sent'[1].msg =
                  [type |-> "init",
                   claims |-> {[heroId |-> r.hero_id, clientId |-> r.client_id] :
                                  r \in hero_claims},
                   clientNames |-> {[clientId |-> r.client_id, name |-> r.name] :
                                       r \in client_names},
                   clients |-> {[id |-> c.id, role |-> c.role, name |-> c.name] :
                                   c \in clients'},
                   director |-> [dmClientId |-> Authority(room_state),
                                 dmIsDiscordUser |-> AuthorityIsVerified(room_state)]]
             /\ sent'[2].msg.type = "clients"
             /\ sent'[2].msg.list = sent'[1].msg.clients
             /\ OpenChannels(clients', sockets') \ {ws} \subseteq sent'[2].to
             /\ \E c \in clients' : c.ws = ws /\ c.id = req'.clientId ]_vars

C25_Witness ==
    /\ req.op = "ws connection" /\ res.status = 101
    /\ Len(sent) = 2
    /\ \E n \in sent[1].msg.clientNames : \A c \in clients : c.id # n.clientId
    /\ sent[2].to \ sent[1].to # {}

C27_DisconnectKeepsStore ==
    [][ req'.op \in {"ws close", "ws error"}
        => /\ hero_claims' = hero_claims
           /\ Authority(room_state') = Authority(room_state)
           /\ AuthorityIsVerified(room_state') = AuthorityIsVerified(room_state)
           /\ room_state' = room_state
           /\ client_names' = client_names
           /\ game_data' = game_data ]_vars

C27_Witness ==
    /\ req.op \in {"ws close", "ws error"}
    /\ req.clientId # Null
    /\ Authority(room_state) = req.clientId
    /\ \E heroId \in cfg.heroes : Owner(hero_claims, heroId) = req.clientId
    /\ \A c \in clients : c.id # req.clientId

\* C28: a send on an open socket that cannot be delivered is reported by
\* that socket's error event, after the handler that sent it.  When a
\* write, claim or release has fanned its event out and a recipient ws
\* then errors: the event had been sent to every eligible channel (open,
\* registered, not the excluded writer), the caller had its success
\* response, the mutation is and stays in the database, and every other
\* channel stays registered and open.
C28_FailedDeliveryIsIsolated ==
    [][ \A ws \in (IF req'.op = "ws error" THEN Slots ELSE {}) :
          ( /\ req.op \in {"PUT /data", "POST /heroes/claim", "DELETE /heroes/claim"}
            /\ sent # <<>>
            /\ ws \in sent[1].to
            /\ WsError(ws) )
          => /\ sent[1].to =
                  {c.ws : c \in {d \in clients :
                                    /\ sockets[d.ws].readyState = "OPEN"
                                    /\ (req.op = "PUT /data" => d.id # req.clientId)}}
             /\ res.status = 200
             /\ UNCHANGED dbVars
             /\ req.op = "PUT /data"
                  => \E r \in Stored(game_data', req.target) :
                        r.version = res.body.version
             /\ req.op = "POST /heroes/claim"
                  => Owner(hero_claims', req.target) = req.clientId
             /\ req.op = "DELETE /heroes/claim"
                  => Owner(hero_claims', req.target) = Null
             /\ \A c \in clients :
                  c.id # sockets[ws].clientId
                    => c \in clients' /\ sockets'[c.ws] = sockets[c.ws] ]_vars

\* a write has been fanned out to two open channels, either of which may
\* now report the failure of its delivery
C28_Witness ==
    /\ req.op = "PUT /data" /\ res.status = 200
    /\ Len(sent) = 1
    /\ Cardinality(sent[1].to) = 2
    /\ \A ws \in sent[1].to : sockets[ws].readyState = "OPEN"

\* C29 (as stated): for the authority, a claim and a release always report
\* success; a release by the authority of an unclaimed hero too, and it
\* leaves the hero unclaimed.
C29_AuthorityAlwaysSucceeds ==
    [][ \A heroId \in cfg.heroes \cap {req'.target},
           clientId \in {req'.clientId} \ {Null} :
          ( /\ clientId = Authority(room_state)
            /\ req'.op \in {"POST /heroes/claim", "DELETE /heroes/claim"}
            /\ (ClaimHero(heroId, clientId) \/ ReleaseHero(heroId, clientId)) )
          => /\ res'.status = 200
             /\ res'.body.success = TRUE
             /\ req'.op = "DELETE /heroes/claim"
                  => Owner(hero_claims', heroId) = Null ]_vars

\* C29 (amended): for the authority, a claim always reports success and
\* makes the authority the owner; a release by the authority is always
\* answered 200 and leaves the hero unclaimed, and reports success exactly
\* when the hero had a claim: on an unclaimed hero it reports success
\* false and changes nothing.
C29_AuthorityReleaseReportsRemoval ==
    [][ \A heroId \in cfg.heroes \cap {req'.target},
           clientId \in {req'.clientId} \ {Null} :
          ( /\ clientId = Authority(room_state)
            /\ req'.op \in {"POST /heroes/claim", "DELETE /heroes/claim"}
            /\ (ClaimHero(heroId, clientId) \/ ReleaseHero(heroId, clientId)) )
          => /\ res'.status = 200
             /\ req'.op = "POST /heroes/claim"
                  => /\ res'.body.success = TRUE
                     /\ Owner(hero_claims', heroId) = clientId
             /\ req'.op = "DELETE /heroes/claim"
                  => /\ res'.body.success = (Owner(hero_claims, heroId) # Null)
                     /\ Owner(hero_claims', heroId) = Null
                     /\ Owner(hero_claims, heroId) = Null
                          => hero_claims' = hero_claims /\ sent' = <<>> ]_vars

C29_Witness ==
    /\ req.op = "DELETE /heroes/claim"
    /\ req.clientId # Null
    /\ req.clientId = Authority(room_state)
    /\ req.was = Null
    /\ res.status = 200 /\ res.body.success = FALSE
    /\ Owner(hero_claims, req.target) = Null

\* C30: a claim or release request that carries no identity (no
\* x-client-id, and no token that verifies) is answered 400, leaves the
\* claim table as it was and sends no event.
C30_NoIdentityIs400 ==
    [][ \A heroId \in cfg.heroes \cap {req'.target},
           authorization \in Authorizations, xClientId \in XClientIds :
          ( /\ req'.op \in {"POST /heroes/claim", "DELETE /heroes/claim"}
            /\ Requester(authorization, xClientId) = Null
            /\ \/ ClaimHero(heroId, actingIdentity(authorization, xClientId))
               \/ ReleaseHero(heroId, actingIdentity(authorization, xClientId)) )
          => /\ res'.status = 400
             /\ hero_claims' = hero_claims
             /\ sent' = <<>> ]_vars

C30_Witness ==
    /\ req.op \in {"POST /heroes/claim", "DELETE /heroes/claim"}
    /\ req.clientId = Null
    /\ res.status = 400
    /\ Owner(hero_claims, req.target) # Null

(***************************************************************************)
(* Concurrency, frames and the client hook: C31 - C40                      *)
(***************************************************************************)

\* C32: when the stored version of a key is v (what two readers have both
\* read) and one of them writes with expectedVersion v, that write succeeds
\* and returns v + 1; the other's write with expectedVersion v, whatever its
\* payload, then finds no row to update and changes nothing, so the stored
\* payload is the first writer's.  Handlers run one at a time, so these are
\* all the interleavings.
C32_OneOfTwoWritersWins ==
    [][ \A k \in {req'.target} \cap (IF req'.op = "PUT /data" THEN Keys ELSE {}),
           d1 \in cfg.payloads, r \in game_data :
          ( /\ r.key = k
            /\ PutData(k, d1, {r.version}, req'.clientId) )
          => /\ res'.status = 200
             /\ res'.body.version = r.version + 1
             /\ Stored(game_data', k) =
                  {[key |-> k, data |-> dataString(d1), version |-> r.version + 1]}
             /\ \A d2 \in cfg.payloads :
                  LET second == setData(game_data', k, dataString(d2), {r.version})
                  IN  /\ second.returning = {}
                      /\ second.rows = game_data'
                      /\ conflictResponse(getData(second.rows, k)).status
                           \in {409, 500} ]_vars

\* the second of two writers with the same expectedVersion has been turned
\* away: the key is at version 2 after a conditional write, and the last
\* request was answered with the conflict
C32_Witness ==
    /\ req.op = "PUT /data"
    /\ res.status = 409
    /\ returned[req.target] = <<1, 2>>
    /\ ~allUncond[req.target]
    /\ res.body.currentVersion = 2

\* C33: when two distinct identities connect to a vacant room, whichever
\* handler runs first is answered dm and becomes the stored authority, and
\* the other, running on the resulting state, is answered player and finds
\* the authority set, so it stores nothing.  Handlers run one at a time, so
\* these are all the interleavings.
C33_OneDirectorOfTwoConnects ==
    [][ ( /\ req'.op = "GET /connect"
          /\ Authority(room_state) = Null )
        => /\ res'.body.role = "dm"
           /\ Authority(room_state') = req'.clientId
           /\ \A other \in (cfg.ids \cup (cfg.tokens \cap Users)) \ {req'.clientId} :
                /\ connectRole(getDmClientId(room_state'), other) = "player"
                /\ getDmClientId(room_state') # Null ]_vars

\* the second of two identities has connected: it is a player, the first
\* is the authority, and nothing else has happened in the room
C33_Witness ==
    /\ req.op = "GET /connect"
    /\ res.body.role = "player"
    /\ Authority(room_state) \notin {Null, req.clientId}
    /\ hero_claims = {} /\ game_data = {} /\ clients = {}

\* C34: after a read of a key has returned version v (0 for a key without
\* a document), a write of that key with expectedVersion v on the state the
\* read left succeeds and returns v + 1.
C34_WriteAfterReadSucceeds ==
    [][ req'.op = "GET /data"
        => \A d \in cfg.payloads :
             setData(game_data', req'.target, dataString(d),
                     {res'.body.version}).returning
               = {res'.body.version + 1} ]_vars

\* C35: in every step, a hero has at most one claim row before and after;
\* and when a hero owned by A is owned by a different identity B after the
\* step, the step is a claim of that hero made by B and B is the authority.
\* (Any other way from A to B goes through a state in which the hero has no
\* owner: a release by A or by the authority, or a reset.)
C35_OwnerChangesOnlyByAuthorityClaim ==
    [][ \A heroId \in (IF hero_claims' # hero_claims THEN Heroes ELSE {}) :
          /\ Cardinality({r \in hero_claims' : r.hero_id = heroId}) <= 1
          /\ ( /\ Owner(hero_claims, heroId) # Null
               /\ Owner(hero_claims', heroId) \notin {Null, Owner(hero_claims, heroId)} )
             => /\ req'.op = "POST /heroes/claim"
                /\ req'.target = heroId
                /\ req'.clientId = Owner(hero_claims', heroId)
                /\ req'.clientId = Authority(room_state)
          /\ ( /\ Owner(hero_claims, heroId) # Null
               /\ Owner(hero_claims', heroId) = Null )
             => \/ /\ req'.op = "DELETE /heroes/claim"
                   /\ req'.target = heroId
                   /\ req'.clientId \in {Owner(hero_claims, heroId), Authority(room_state)}
                \/ req'.op = "POST /reset" ]_vars

\* the authority has taken over a hero that another identity owned
C35_Witness ==
    /\ req.op = "POST /heroes/claim"
    /\ res.status = 200
    /\ req.was \notin {Null, req.clientId}
    /\ Owner(hero_claims, req.target) = req.clientId
    /\ Authority(room_state) = req.clientId
    /\ \E heroId \in Heroes \ {req.target} :
         Owner(hero_claims, heroId) \notin {Null, req.clientId}

\* C36: a claim of a hero by the identity that already owns it is answered
\* 200 with success true and leaves the claim table as it was.
C36_ReclaimIsNoOp ==
    [][ \A heroId \in cfg.heroes \cap {req'.target},
           clientId \in {req'.clientId} \ {Null} :
          ( /\ req'.op = "POST /heroes/claim"
            /\ Owner(hero_claims, heroId) = clientId
            /\ ClaimHero(heroId, clientId) )
          => /\ res'.status = 200
             /\ res'.body.success = TRUE
             /\ hero_claims' = hero_claims ]_vars

\* an owner that is not the authority has claimed its hero again
C36_Witness ==
    /\ req.op = "POST /heroes/claim"
    /\ req.clientId # Null
    /\ req.was = req.clientId
    /\ res.status = 200
    /\ Authority(room_state) # req.clientId
    /\ Owner(hero_claims, req.target) = req.clientId

\* C38: in every reachable state, the identity of each open socket has an
\* entry in the registry, and that entry refers to an open socket of that
\* identity.
C38_OpenChannelsRegistered ==
    \A ws \in Slots :
      sockets[ws].readyState = "OPEN"
        => \E c \in clients :
             /\ c.id = sockets[ws].clientId
             /\ sockets[c.ws].readyState = "OPEN"
             /\ sockets[c.ws].clientId = c.id

\* C40: a write changes at most the document of the written key: every
\* other document, the claims, the room state (authority id and verified
\* flag), the display names and the connection registry are as before.  It
\* is accepted whoever writes and whoever holds claims: without
\* expectedVersion always, with the stored version as expectedVersion always.
C40_WriteTouchesOnlyItsKey ==
    [][ \A k \in {req'.target} \cap (IF req'.op = "PUT /data" THEN Keys ELSE {}) :
          /\ \A other \in Keys \ {k} : Stored(game_data', other) = Stored(game_data, other)
          /\ hero_claims' = hero_claims
          /\ room_state' = room_state
          /\ client_names' = client_names
          /\ clients' = clients
          /\ sockets' = sockets
          /\ \A d \in cfg.payloads :
               /\ PutData(k, d, {}, req'.clientId) => res'.status = 200
               /\ \A r \in Stored(game_data, k) :
                    PutData(k, d, {r.version}, req'.clientId) => res'.status = 200 ]_vars

\* a request without identity has written a key with the stored version as
\* expectedVersion, while another key has a document, a hero is claimed
\* and the room has a director
C40_Witness ==
    /\ req.op = "PUT /data"
    /\ res.status = 200
    /\ ~allUncond[req.target]
    /\ req.clientId = Null
    /\ Authority(room_state) # Null
    /\ hero_claims # {}
    /\ \E other \in Keys \ {req.target} : Stored(game_data, other) # {}

\* the client WebSocket objects that are connecting or open
liveSockets(b) ==
    {s \in HookSockets : b.sockets[s].readyState \in {"CONNECTING", "OPEN"}}

\* C39: after every step at most one WebSocket of the hook is connecting or
\* open; and while the room server stays disabled, and once the hook is
\* unmounted, no step makes a new WebSocket
C39_OneSocketNoneWhenOff ==
    [][ /\ Cardinality(liveSockets(browser')) <= 1
        /\ (hook.mounted = "unmounted"
              \/ (~connectable(hook.settings) /\ ~connectable(hook'.settings)))
           => \A s \in HookSockets :
                 browser'.sockets[s].readyState = "CONNECTING"
                   => browser.sockets[s].readyState = "CONNECTING" ]_vars

\* C31: the client keeps retrying until a channel is open: when the close
\* event of a socket that a reconnect timer made is dispatched while the hook
\* is mounted with the room server enabled, a retry is under way afterwards
\* (a reconnect timer is pending, or a socket is connecting or open) - also
\* when the attempt failed because the server was not reachable (close code
\* 1006), with and without a bearer token
C31_RetryContinues ==
    [][ \A s \in HookSockets :
          ( /\ browser.sockets[s].byTimer
            /\ hook.mounted = "mounted"
            /\ connectable(hook.settings)
            /\ HookOnClose(s) )
          => browser'.timers > 0 \/ liveSockets(browser') # {} ]_vars

\* C37: a client socket that is open and has handled every frame it
\* received shows the server's claim table
C37_ClaimMapFollowsServer ==
    \A s \in HookSockets :
        (browser.sockets[s].readyState = "OPEN" /\ browser.sockets[s].inbox = <<>>)
            => hook.state.heroClaims = getAllClaims(hero_claims)


====
